---------------------------- MODULE Spec2Model ----------------------------
(***************************************************************************)
(* Model of the tile-partitioned elevation -> H3 pipeline of               *)
(* elevation_h3_clean.py (concurrent, two-phase aggregation) and of the    *)
(* single-pass aggregation of elevation_h3.py.                             *)
(*                                                                         *)
(* Conventions of the model:                                               *)
(*  - AVG values are exact rationals <<num, den>> in lowest terms; the     *)
(*    code computes them in IEEE doubles, so every equality below is an    *)
(*    equality up to floating-point rounding in the program.               *)
(*  - a table is a sequence of rows [hex, metric]; the row order of a      *)
(*    GROUP BY result is unspecified in SQL and is taken ascending in hex. *)
(*  - the world is one row of tiles; a tile is its column number.          *)
(***************************************************************************)
EXTENDS Integers, Sequences, FiniteSets, TLC

\* ------------------------------------------------------------- bounds
MaxCol == 2
MaxWorkers == 2
MaxPixels == 2
MaxHex == 2
MaxElev == 1
MaxBatches == 3
MaxPpe == 8
MaxNative == 3

\* ------------------------------------------------- program constants
H3_RES == 11
NATIVE_RESOLUTION == 10
DefaultPixelsPerHexEdge == 6

Hexes == 1..MaxHex
Elevs == 0..MaxElev
Cols == 0..(MaxCol - 1)

NoTilesError == "No tiles produced data"
WorkerError == "worker exception"
DivisionError == "ZeroDivisionError"
CatalogError == "catalog request failed"

VARIABLES
    bbox,                 \* <<west, south, east, north>> of the configuration cell
    h3_res,               \* H3_RES
    native_resolution,    \* NATIVE_RESOLUTION
    pixels_per_hex_edge,  \* argument of calculate_resolution_for_h3
    max_workers,          \* MAX_WORKERS
    resolution,           \* RESOLUTION (0 until computed)
    pc,                   \* position of the notebook's main thread
    tiles,                \* list returned by get_tiles
    wpc,                  \* per tile: position of its process_tile_to_h3 task
    dem,                  \* per tile: the raster samples odc.stac.load returned
    fut,                  \* per tile: the Future's outcome
    con,                  \* per tile: the task's DuckDB connection
    yielded,              \* futures as_completed has handed to the loop
    batches,              \* process_all_tiles: batches
    completed,            \* process_all_tiles: completed
    hex_result,           \* process_all_tiles: hex_result
    err                   \* the exception that ended the run, "" if none

vars == <<bbox, h3_res, native_resolution, pixels_per_hex_edge, max_workers,
          resolution, pc, tiles, wpc, dem, fut, con, yielded, batches,
          completed, hex_result, err>>

cfgVars == <<bbox, h3_res, native_resolution, pixels_per_hex_edge, max_workers>>

\* ------------------------------------------------------- arithmetic
Min(a, b) == IF a <= b THEN a ELSE b
Max(a, b) == IF a >= b THEN a ELSE b

RECURSIVE Gcd(_, _)
Gcd(a, b) == IF b = 0 THEN a ELSE Gcd(b, a % b)

\* a rational n/d (n >= 0, d > 0) in lowest terms
Rat(n, d) == LET g == Gcd(n, d) IN <<n \div g, d \div g>>
RatAdd(p, q) == Rat(p[1] * q[2] + q[1] * p[2], p[2] * q[2])
RatDivInt(p, k) == Rat(p[1], p[2] * k)

\* ----------------------------------------------------------- tables
Row(h, m) == [hex |-> h, metric |-> m]

RECURSIVE SortedSeq(_)
SortedSeq(S) ==
    IF S = {} THEN <<>>
    ELSE LET m == CHOOSE x \in S : \A y \in S : x <= y
         IN <<m>> \o SortedSeq(S \ {m})

RECURSIVE SumMetric(_, _)
SumMetric(rows, h) ==
    IF rows = <<>> THEN <<0, 1>>
    ELSE IF Head(rows).hex = h
         THEN RatAdd(Head(rows).metric, SumMetric(Tail(rows), h))
         ELSE SumMetric(Tail(rows), h)

RECURSIVE CountHex(_, _)
CountHex(rows, h) ==
    IF rows = <<>> THEN 0
    ELSE (IF Head(rows).hex = h THEN 1 ELSE 0) + CountHex(Tail(rows), h)

HexIds(rows) == {rows[i].hex : i \in DOMAIN rows}

\* SELECT hex, AVG(metric) AS metric FROM rows GROUP BY 1
\* faulty variant: SUM in place of AVG
GroupAvgSum(rows) ==
    LET ks == SortedSeq(HexIds(rows))
    IN [i \in 1..Len(ks) |-> Row(ks[i], SumMetric(rows, ks[i]))]
GroupAvg(rows) ==
    LET ks == SortedSeq(HexIds(rows))
    IN [i \in 1..Len(ks) |->
          Row(ks[i], RatDivInt(SumMetric(rows, ks[i]), CountHex(rows, ks[i])))]

\* pa.table({lat, lng, elevation}) with h3_latlng_to_cell applied: one row per pixel
PixelRows(grid) == [i \in DOMAIN grid |-> Row(grid[i].hex, <<grid[i].elev, 1>>)]

\* the per-tile query of process_tile_to_h3 (SELECT ... AVG(elevation) ... GROUP BY 1)
\* faulty variant: the first sample of each hex in place of the mean
TileAggregateFirst(grid) ==
    LET rows == PixelRows(grid)
        ks == SortedSeq(HexIds(rows))
        first(h) == CHOOSE j \in DOMAIN rows :
                       /\ rows[j].hex = h
                       /\ \A k \in DOMAIN rows : rows[k].hex = h => j <= k
    IN [i \in 1..Len(ks) |-> Row(ks[i], rows[first(ks[i])].metric)]
TileAggregate(grid) == GroupAvg(PixelRows(grid))

\* pa.concat_tables(batches)
\* faulty variant: only the first batch
ConcatTablesFirst(bs) == IF bs = <<>> THEN <<>> ELSE Head(bs)
RECURSIVE ConcatTables(_)
ConcatTables(bs) ==
    IF bs = <<>> THEN <<>> ELSE Head(bs) \o ConcatTables(Tail(bs))

\* the merge query of process_all_tiles over the concatenated batches
\* faulty variants: the last batch alone; SUM in place of AVG; merging batch by
\* batch into a running result
MergeTablesLast(bs) == IF bs = <<>> THEN <<>> ELSE bs[Len(bs)]
MergeTablesSum(bs) == GroupAvgSum(ConcatTables(bs))
RECURSIVE RunningMerge(_, _)
RunningMerge(acc, bs) ==
    IF bs = <<>> THEN acc ELSE RunningMerge(GroupAvg(acc \o Head(bs)), Tail(bs))
MergeTablesRunning(bs) == RunningMerge(<<>>, bs)
MergeTables(bs) == GroupAvg(ConcatTables(bs))

\* the single-pass aggregation of elevation_h3.py: one AVG per hex over all pixels
SinglePass(grids) == GroupAvg(ConcatTables([i \in DOMAIN grids |-> PixelRows(grids[i])]))

\* ------------------------------------------------ resolution planner
\* h3.average_hexagon_edge_length(h3_res, unit='m'), the library's table in
\* millimetres
HexEdgeMm(r) ==
    CASE r = 6 -> 3724533
      [] r = 7 -> 1406476
      [] r = 8 -> 531414
      [] r = 9 -> 200786
      [] r = 10 -> 75864
      [] r = 11 -> 28664
      [] r = 12 -> 10830

H3Resolutions == 6..12

\* Python's round(): to the nearest integer, ties to the even one; n >= 0, d > 0
RoundHalfEven(n, d) ==
    LET q == n \div d
        r == n % d
    IN IF 2 * r < d THEN q
       ELSE IF 2 * r > d THEN q + 1
       ELSE IF q % 2 = 0 THEN q ELSE q + 1

\* faulty variant: without the floor at native_resolution
calculate_resolution_no_floor(h3, native, ppe) ==
    RoundHalfEven(HexEdgeMm(h3), ppe * native * 1000) * native
calculate_resolution_for_h3(h3, native, ppe) ==
    Max(RoundHalfEven(HexEdgeMm(h3), ppe * native * 1000) * native, native)

\* ------------------------------------------------------ tile splitter
\* morecantile's tms.tiles(west, south, east, north, zooms=[zoom]) on one row of
\* MaxCol tiles whose boundaries are the longitudes 0..MaxCol: the tiles from the
\* one holding west+epsilon to the one holding east-epsilon (indices clamped to the
\* grid, taken min..max), and a box with west > east is split at the antimeridian.
ColRange(a, b) ==
    LET nw == Min(a, MaxCol - 1)
        se == Max(b - 1, 0)
    IN SortedSeq(Min(nw, se)..Max(nw, se))
get_tiles(b) ==
    IF b[1] > b[3] THEN ColRange(0, b[3]) \o ColRange(b[1], MaxCol)
    ELSE ColRange(b[1], b[3])

Range(s) == {s[i] : i \in DOMAIN s}

\* ------------------------------------------------------------ state
Latitudes == {<<0, 1>>, <<1, 0>>}
BBoxes == {<<w, sn[1], e, sn[2]>> : w \in 0..MaxCol, e \in 0..MaxCol, sn \in Latitudes}
ValidBBox(b) == b[1] < b[3] /\ b[2] < b[4]

Pixels == [hex : Hexes, elev : Elevs]
Grids == UNION {[1..n -> Pixels] : n \in 0..MaxPixels}

Pending == [kind |-> "pending", tbl |-> <<>>]
ReturnedNone == [kind |-> "none", tbl |-> <<>>]
Returned(t) == [kind |-> "table", tbl |-> t]
Raised == [kind |-> "exc", tbl |-> <<>>]

PipelineStart ==
    /\ resolution = 0
    /\ tiles = <<>>
    /\ wpc = [c \in Cols |-> "idle"]
    /\ dem = [c \in Cols |-> <<>>]
    /\ fut = [c \in Cols |-> Pending]
    /\ con = [c \in Cols |-> "none"]
    /\ yielded = {}
    /\ batches = <<>>
    /\ completed = 0
    /\ hex_result = <<>>
    /\ err = ""

\* the notebook with its configuration cell filled in, nothing run yet
Init ==
    /\ bbox \in BBoxes
    /\ h3_res = H3_RES
    /\ native_resolution \in {0, NATIVE_RESOLUTION}
    /\ pixels_per_hex_edge = DefaultPixelsPerHexEdge
    /\ max_workers \in 1..MaxWorkers
    /\ pc = "plan"
    /\ PipelineStart

\* ------------------------------------------------- configuration cells
\* RESOLUTION = calculate_resolution_for_h3(H3_RES, NATIVE_RESOLUTION); a zero
\* divisor raises ZeroDivisionError and the notebook stops there
PlanResolution ==
    /\ pc = "plan"
    /\ IF native_resolution = 0 \/ pixels_per_hex_edge = 0
       THEN /\ pc' = "failed"
            /\ err' = DivisionError
            /\ UNCHANGED resolution
       ELSE /\ resolution' = calculate_resolution_for_h3(h3_res, native_resolution,
                                                         pixels_per_hex_edge)
            /\ pc' = "query"
            /\ UNCHANGED err
    /\ UNCHANGED <<cfgVars, tiles, wpc, dem, fut, con, yielded, batches, completed,
                   hex_result>>

\* items = query_stac(bbox, COLLECTION): the catalog answers
query_stac ==
    /\ pc = "query"
    /\ pc' = "tiles"
    /\ UNCHANGED <<cfgVars, resolution, tiles, wpc, dem, fut, con, yielded, batches,
                   completed, hex_result, err>>

\* the catalog request fails (network, a rejected request): the run cell stops
query_stac_raise ==
    /\ pc = "query"
    /\ pc' = "failed"
    /\ err' = CatalogError
    /\ UNCHANGED <<cfgVars, resolution, tiles, wpc, dem, fut, con, yielded, batches,
                   completed, hex_result>>

\* tiles, tms = get_tiles(bbox, TILE_ZOOM)
GetTiles ==
    /\ pc = "tiles"
    /\ tiles' = get_tiles(bbox)
    /\ pc' = "submit"
    /\ UNCHANGED <<cfgVars, resolution, wpc, dem, fut, con, yielded, batches,
                   completed, hex_result, err>>

\* --------------------------------------------------- process_all_tiles
TileSet == Range(tiles)
Running == {t \in TileSet : wpc[t] \in {"loaded", "flat", "connected"}}
Finished(t) == wpc[t] = "finished"
TileIndex(t) == CHOOSE i \in DOMAIN tiles : tiles[i] = t

\* futures = {pool.submit(process_tile_to_h3, tile, ...): tile for tile in tiles}
Submit ==
    /\ pc = "submit"
    /\ wpc' = [c \in Cols |-> IF c \in TileSet THEN "queued" ELSE "idle"]
    /\ pc' = IF tiles = <<>> THEN "merge" ELSE "collect"
    /\ UNCHANGED <<cfgVars, resolution, tiles, dem, fut, con, yielded, batches,
                   completed, hex_result, err>>

\* a free pool thread takes the oldest queued task and runs it up to odc.stac.load
CanStart(t) ==
    /\ t \in TileSet
    /\ wpc[t] = "queued"
    /\ Cardinality(Running) < max_workers
    /\ \A u \in TileSet : wpc[u] = "queued" => TileIndex(t) <= TileIndex(u)

mainVars == <<pc, yielded, batches, completed, hex_result, err>>

\* odc.stac.load(...) returns the tile's samples
LoadOk(t) ==
    /\ CanStart(t)
    /\ \E g \in Grids : dem' = [dem EXCEPT ![t] = g]
    /\ wpc' = [wpc EXCEPT ![t] = "loaded"]
    /\ UNCHANGED <<cfgVars, resolution, tiles, fut, con, mainVars>>

\* odc.stac.load(...) raises: except Exception: return None
LoadFail(t) ==
    /\ CanStart(t)
    /\ wpc' = [wpc EXCEPT ![t] = "finished"]
    /\ fut' = [fut EXCEPT ![t] = ReturnedNone]
    /\ UNCHANGED <<cfgVars, resolution, tiles, dem, con, mainVars>>

\* ds[band].max(dim="time") ... pa.table({...}): builds tile_pa
Flatten(t) ==
    /\ t \in TileSet
    /\ wpc[t] = "loaded"
    /\ wpc' = [wpc EXCEPT ![t] = "flat"]
    /\ UNCHANGED <<cfgVars, resolution, tiles, dem, fut, con, mainVars>>

\* the same lines raise (no try block covers them): the Future holds the exception
FlattenRaise(t) ==
    /\ t \in TileSet
    /\ wpc[t] = "loaded"
    /\ wpc' = [wpc EXCEPT ![t] = "finished"]
    /\ fut' = [fut EXCEPT ![t] = Raised]
    /\ UNCHANGED <<cfgVars, resolution, tiles, dem, con, mainVars>>

\* con = get_con(): duckdb.connect() and SET ...; LOAD h3
get_con(t) ==
    /\ t \in TileSet
    /\ wpc[t] = "flat"
    /\ con' = [con EXCEPT ![t] = "open"]
    /\ wpc' = [wpc EXCEPT ![t] = "connected"]
    /\ UNCHANGED <<cfgVars, resolution, tiles, dem, fut, mainVars>>

\* duckdb.connect() succeeds and con.sql("... LOAD h3") raises: the connection is
\* open and the exception's traceback refers to it
get_con_raise(t) ==
    /\ t \in TileSet
    /\ wpc[t] = "flat"
    /\ con' = [con EXCEPT ![t] = "open"]
    /\ wpc' = [wpc EXCEPT ![t] = "finished"]
    /\ fut' = [fut EXCEPT ![t] = Raised]
    /\ UNCHANGED <<cfgVars, resolution, tiles, dem, mainVars>>

\* result = con.sql(...).fetch_arrow_table(); return result. No statement closes
\* con: CPython closes it when the frame's last reference goes at the return
QueryWorker(t) ==
    /\ t \in TileSet
    /\ wpc[t] = "connected"
    /\ fut' = [fut EXCEPT ![t] = Returned(TileAggregate(dem[t]))]
    /\ con' = [con EXCEPT ![t] = "closed"]
    /\ wpc' = [wpc EXCEPT ![t] = "finished"]
    /\ UNCHANGED <<cfgVars, resolution, tiles, dem, mainVars>>

\* the query raises (memory_limit, a failing h3 call): the Future holds the
\* exception, whose traceback keeps the frame and its connection alive
QueryRaise(t) ==
    /\ t \in TileSet
    /\ wpc[t] = "connected"
    /\ fut' = [fut EXCEPT ![t] = Raised]
    /\ wpc' = [wpc EXCEPT ![t] = "finished"]
    /\ UNCHANGED <<cfgVars, resolution, tiles, dem, con, mainVars>>

\* the test of the collecting loop: result is not None and len(result) > 0
KeepResult(f) == f.kind = "table" /\ Len(f.tbl) > 0

\* for future in as_completed(futures): result = future.result(); ...
\* (any finished future may come next)
Collect(t) ==
    /\ pc = "collect"
    /\ t \in TileSet \ yielded
    /\ Finished(t)
    /\ fut[t].kind # "exc"
    /\ yielded' = yielded \cup {t}
    /\ batches' = IF KeepResult(fut[t]) THEN Append(batches, fut[t].tbl) ELSE batches
    /\ completed' = completed + 1
    /\ pc' = IF yielded' = TileSet THEN "merge" ELSE "collect"
    /\ UNCHANGED <<cfgVars, resolution, tiles, wpc, dem, fut, con, hex_result, err>>

\* future.result() re-raises the task's exception: it leaves the loop and the
\* with block, whose exit waits for the tasks still running
CollectRaise(t) ==
    /\ pc = "collect"
    /\ t \in TileSet \ yielded
    /\ Finished(t)
    /\ fut[t].kind = "exc"
    /\ yielded' = yielded \cup {t}
    /\ pc' = "unwind"
    /\ err' = WorkerError
    /\ UNCHANGED <<cfgVars, resolution, tiles, wpc, dem, fut, con, batches,
                   completed, hex_result>>

\* ThreadPoolExecutor.__exit__: shutdown(wait=True), then the exception goes on
Unwind ==
    /\ pc = "unwind"
    /\ \A t \in TileSet : Finished(t)
    /\ pc' = "failed"
    /\ UNCHANGED <<cfgVars, resolution, tiles, wpc, dem, fut, con, yielded, batches,
                   completed, hex_result, err>>

\* if not batches: raise RuntimeError("No tiles produced data")
MergeEmpty ==
    /\ pc = "merge"
    /\ batches = <<>>
    /\ pc' = "failed"
    /\ err' = NoTilesError
    /\ UNCHANGED <<cfgVars, resolution, tiles, wpc, dem, fut, con, yielded, batches,
                   completed, hex_result>>

\* combined = pa.concat_tables(batches); con = duckdb.connect(); the merge query;
\* con.close(); return hex_result
Merge ==
    /\ pc = "merge"
    /\ batches # <<>>
    /\ hex_result' = MergeTables(batches)
    /\ pc' = "done"
    /\ UNCHANGED <<cfgVars, resolution, tiles, wpc, dem, fut, con, yielded, batches,
                   completed, err>>

Worker(t) ==
    \/ LoadOk(t)
    \/ LoadFail(t)
    \/ Flatten(t)
    \/ FlattenRaise(t)
    \/ get_con(t)
    \/ get_con_raise(t)
    \/ QueryWorker(t)
    \/ QueryRaise(t)

Next ==
    \/ PlanResolution
    \/ query_stac
    \/ query_stac_raise
    \/ GetTiles
    \/ Submit
    \/ \E t \in Cols : Worker(t)
    \/ \E t \in Cols : Collect(t)
    \/ \E t \in Cols : CollectRaise(t)
    \/ Unwind
    \/ MergeEmpty
    \/ Merge

Spec == Init /\ [][Next]_vars

\* ------------------------------------------- the merge step on its own
\* process_all_tiles at its merge step, for every list of kept per-tile tables
TileTables == {TileAggregate(g) : g \in Grids} \ {<<>>}
BatchLists == UNION {[1..n -> TileTables] : n \in 0..MaxBatches}

InitMerge ==
    /\ bbox = <<0, 0, MaxCol, 1>>
    /\ h3_res = H3_RES
    /\ native_resolution = NATIVE_RESOLUTION
    /\ pixels_per_hex_edge = DefaultPixelsPerHexEdge
    /\ max_workers = 1
    /\ resolution = 0
    /\ tiles = <<>>
    /\ wpc = [c \in Cols |-> "idle"]
    /\ dem = [c \in Cols |-> <<>>]
    /\ fut = [c \in Cols |-> Pending]
    /\ con = [c \in Cols |-> "none"]
    /\ yielded = {}
    /\ batches \in BatchLists
    /\ completed = Len(batches)
    /\ hex_result = <<>>
    /\ err = ""
    /\ pc = "merge"

NextMerge ==
    \/ MergeEmpty
    \/ Merge

SpecMerge == InitMerge /\ [][NextMerge]_vars

\* ------------------------------------- the resolution planner on its own
\* calculate_resolution_for_h3 for every hex resolution, native resolution and
\* pixels_per_hex_edge of the ranges
NativeChoices == (0..MaxNative) \cup {NATIVE_RESOLUTION}

InitPlan ==
    /\ bbox = <<0, 0, MaxCol, 1>>
    /\ h3_res \in H3Resolutions
    /\ native_resolution \in NativeChoices
    /\ pixels_per_hex_edge \in 1..MaxPpe
    /\ max_workers = 1
    /\ pc = "plan"
    /\ PipelineStart

NextPlan == PlanResolution

SpecPlan == InitPlan /\ [][NextPlan]_vars

\* ------------------------------------------------------------ claims
Terminal == pc \in {"done", "failed"}
Dispatched == \E t \in Cols : wpc[t] # "idle"
AllTasksFinished == tiles # <<>> /\ \A t \in TileSet : Finished(t)
FutSeq == [i \in DOMAIN tiles |-> fut[tiles[i]]]
IsTable(f) == f.kind = "table"
IsKept(f) == f.kind = "table" /\ f.tbl # <<>>
TblOf(fs) == [i \in DOMAIN fs |-> fs[i].tbl]
\* the tables of the tiles whose worker returned one, in submission order
SuccessTables == TblOf(SelectSeq(FutSeq, IsTable))
\* of those, the non-empty ones
KeptTables == TblOf(SelectSeq(FutSeq, IsKept))
NoneCount == Cardinality({t \in TileSet : fut[t].kind = "none"})
MetricOf(tbl, h) == tbl[CHOOSE i \in DOMAIN tbl : tbl[i].hex = h].metric
Contributing(h) == {t \in TileSet : IsTable(fut[t]) /\ h \in HexIds(fut[t].tbl)}

RECURSIVE SumLocalMeans(_, _)
SumLocalMeans(T, h) ==
    IF T = {} THEN <<0, 1>>
    ELSE LET t == CHOOSE x \in T : TRUE
         IN RatAdd(MetricOf(fut[t].tbl, h), SumLocalMeans(T \ {t}, h))

\* C1: of N >= 1 tiles, k of whose workers returned None: with 1 <= k < N
\* process_all_tiles returns the merge of the N-k other tiles' tables, and with
\* k = N it raises "No tiles produced data".
C1_PartialFailureTolerance ==
    (Terminal /\ Len(tiles) >= 1 /\ Dispatched) =>
        /\ (1 <= NoneCount /\ NoneCount < Len(tiles)) =>
              (pc = "done" /\ hex_result = MergeTables(SuccessTables))
        /\ NoneCount = Len(tiles) => (pc = "failed" /\ err = NoTilesError)

\* C2: no task ever ends with an exception (a failing step makes the worker
\* return None), and the only error process_all_tiles raises is the
\* zero-successes one.
C2_ErrorContainment ==
    /\ \A t \in Cols : fut[t].kind # "exc"
    /\ (pc \in {"unwind", "failed"} /\ Dispatched) => err = NoTilesError

\* the samples of all tiles, as the sequential pipeline concatenates them
GridsInTileOrder == [i \in DOMAIN tiles |-> dem[tiles[i]]]
AllTilesSucceeded == \A t \in TileSet : IsTable(fut[t])

\* C3 as stated: with no failed tile, the merged result equals the single-pass
\* aggregation (one AVG per hex over all samples of all tiles).
C3_TwoPhaseEqualsSinglePass ==
    (pc = "done" /\ AllTilesSucceeded) => hex_result = SinglePass(GridsInTileOrder)

SamplesIn(t, h) == CountHex(PixelRows(dem[t]), h)
EqualCounts ==
    \A h \in Hexes : \A t, u \in TileSet :
        (SamplesIn(t, h) > 0 /\ SamplesIn(u, h) > 0) => SamplesIn(t, h) = SamplesIn(u, h)

\* C3 amended: with no failed tile, and every hex holding the same number of
\* samples in each tile that contributes to it, the merged result equals the
\* single-pass aggregation.
C3_TwoPhaseEqualsSinglePassEqualCounts ==
    (pc = "done" /\ AllTilesSucceeded /\ EqualCounts) =>
        hex_result = SinglePass(GridsInTileOrder)

\* a hex with two samples in each of two tiles, whose local means differ
C3_Witness ==
    /\ pc = "done"
    /\ AllTilesSucceeded
    /\ EqualCounts
    /\ \E h \in Hexes : \E t, u \in TileSet :
          /\ t # u
          /\ SamplesIn(t, h) = 2
          /\ SamplesIn(u, h) = 2
          /\ MetricOf(fut[t].tbl, h) # MetricOf(fut[u].tbl, h)

\* C4: every merged metric is the unweighted mean of the local means of the
\* tiles whose table holds that hex, one term per tile.
C4_MeanOfLocalMeans ==
    pc = "done" =>
        \A i \in DOMAIN hex_result :
            LET h == hex_result[i].hex
            IN /\ Contributing(h) # {}
               /\ hex_result[i].metric =
                     RatDivInt(SumLocalMeans(Contributing(h), h),
                               Cardinality(Contributing(h)))

\* a hex to which two tiles contribute different local means, one of them the
\* mean of two unequal samples in a tile that holds one sample of another hex
C4_Witness ==
    /\ pc = "done"
    /\ \E h \in Hexes : \E t, u \in TileSet :
          /\ {t, u} \subseteq Contributing(h)
          /\ MetricOf(fut[t].tbl, h) = <<0, 1>>
          /\ MetricOf(fut[u].tbl, h) = <<1, 1>>
          /\ SamplesIn(t, h) # SamplesIn(u, h)

\* C5: after a successful merge the hex ids of hex_result are exactly those of
\* the per-tile tables that were returned, each in one row.
C5_HexIdConservation ==
    pc = "done" =>
        /\ HexIds(hex_result) = UNION {HexIds(fut[t].tbl) : t \in TileSet}
        /\ \A i, j \in DOMAIN hex_result :
              hex_result[i].hex = hex_result[j].hex => i = j

\* two tiles share a hex and one of them holds a hex the other does not
C5_Witness ==
    /\ pc = "done"
    /\ \E t, u \in TileSet :
          /\ t # u
          /\ HexIds(fut[t].tbl) \cap HexIds(fut[u].tbl) # {}
          /\ HexIds(fut[t].tbl) \ HexIds(fut[u].tbl) # {}
    /\ Len(hex_result) = MaxHex

Perms(n) == {p \in [1..n -> 1..n] : \A i, j \in 1..n : p[i] = p[j] => i = j}
Permute(bs, p) == [i \in DOMAIN bs |-> bs[p[i]]]
Prefix(bs, i) == SubSeq(bs, 1, i)
Suffix(bs, i) == SubSeq(bs, i + 1, Len(bs))

\* C6 amended: the merge of a list of tables is the same for every order of the
\* list and for every way of concatenating the tables into the one dataset the
\* group-by reads, and merging the merged result again changes nothing.
C6_OrderAndConcatIndependence ==
    pc = "done" =>
        /\ \A p \in Perms(Len(batches)) : MergeTables(Permute(batches, p)) = hex_result
        /\ \A i \in 0..Len(batches) :
              MergeTables(<<ConcatTables(Prefix(batches, i)),
                            ConcatTables(Suffix(batches, i))>>) = hex_result
        /\ MergeTables(<<hex_result>>) = hex_result

\* C6 as stated: also merging two sub-batches first and then merging the two
\* results gives the same table.
C6_OrderAndBatchingIndependence ==
    pc = "done" =>
        /\ \A p \in Perms(Len(batches)) : MergeTables(Permute(batches, p)) = hex_result
        /\ \A i \in 0..Len(batches) :
              MergeTables(<<ConcatTables(Prefix(batches, i)),
                            ConcatTables(Suffix(batches, i))>>) = hex_result
        /\ \A i \in 1..(Len(batches) - 1) :
              MergeTables(<<MergeTables(Prefix(batches, i)),
                            MergeTables(Suffix(batches, i))>>) = hex_result

\* three tables that hold one hex with metrics not all equal, merged
C6_Witness ==
    /\ pc = "done"
    /\ Len(batches) = 3
    /\ \E h \in Hexes :
          /\ \A i \in 1..3 : h \in HexIds(batches[i])
          /\ MetricOf(batches[1], h) # MetricOf(batches[3], h)
          /\ MetricOf(batches[1], h) = MetricOf(batches[2], h)

\* what the tasks' outcomes decide, whatever the order they finished in
ExpectedOutcome ==
    IF \E t \in TileSet : fut[t].kind = "exc" THEN <<"failed", WorkerError>>
    ELSE IF KeptTables = <<>> THEN <<"failed", NoTilesError>>
    ELSE <<"done", "">>

\* C7: for given task outcomes, every order of completion and collection under
\* every max_workers ends in the same outcome (returned, or failed with the same
\* kind of error) and the same hex_result: the one of the submission order.
C7_ConcurrencyInvariance ==
    (Terminal /\ Dispatched) =>
        /\ <<pc, err>> = ExpectedOutcome
        /\ pc = "done" => hex_result = MergeTables(KeptTables)

\* two tiles collected in the reverse of the submission order, sharing a hex
\* with different local means
C7_Witness ==
    /\ pc = "done"
    /\ max_workers > 1
    /\ Len(tiles) = 2
    /\ Len(batches) = 2
    /\ batches[1] = fut[tiles[2]].tbl
    /\ batches[2] = fut[tiles[1]].tbl
    /\ batches[1] # batches[2]
    /\ \E h \in Hexes :
          /\ h \in HexIds(batches[1]) \cap HexIds(batches[2])
          /\ MetricOf(batches[1], h) # MetricOf(batches[2], h)

\* C8: once a task has finished, on whatever exit path, its connection is not
\* open.
C8_SessionsReleased ==
    \A t \in Cols : Finished(t) => con[t] # "open"

InvalidConfiguration ==
    \/ ~ValidBBox(bbox)
    \/ native_resolution <= 0
    \/ pixels_per_hex_edge <= 0
    \/ h3_res \notin 0..15

\* C9: with a bounding box that is not west < east and south < north, or a
\* resolution parameter that is not valid, no tile task is ever submitted.
C9_ConfigurationFailFast == InvalidConfiguration => ~Dispatched

\* C10: the planned resolution is a multiple of native_resolution and at least
\* native_resolution, and no larger pixels_per_hex_edge gives a coarser one.
C10_ResolutionMonotone ==
    pc = "query" =>
        /\ resolution % native_resolution = 0
        /\ resolution >= native_resolution
        /\ \A q \in pixels_per_hex_edge..(MaxPpe + 1) :
              /\ calculate_resolution_for_h3(h3_res, native_resolution, q) <= resolution
              /\ \A r \in q..(MaxPpe + 1) :
                    calculate_resolution_for_h3(h3_res, native_resolution, r)
                        <= calculate_resolution_for_h3(h3_res, native_resolution, q)

\* a planned resolution above the floor that a larger pixels_per_hex_edge makes
\* strictly finer
C10_Witness ==
    /\ pc = "query"
    /\ resolution > native_resolution
    /\ \E q \in pixels_per_hex_edge..MaxPpe :
          calculate_resolution_for_h3(h3_res, native_resolution, q) < resolution

=============================================================================
